---- MODULE Spec2Model ----
(***************************************************************************)
(* TDS Virtual TA: the retrieval-and-answer pipeline.                      *)
(*                                                                         *)
(*   SpecServe   a loaded service answering one query at a time            *)
(*               (app/rag.py answer_question, app/main.py ask)             *)
(*   SpecEmbed   the offline index build interleaved with service start    *)
(*               (embed_local.py main, app/rag.py init_rag)                *)
(*   SpecIngest  the corpus build (scripts/build_db.py, scraper/course.py) *)
(*                                                                         *)
(* Text is modelled by TLA+ strings, so lengths, prefixes and substring    *)
(* tests are the ones the Python code computes.  The string literals of    *)
(* the source that hold non-ASCII glyphs are written with ASCII stand-ins  *)
(* (a typographic apostrophe becomes ', the one-character ellipsis         *)
(* placeholder becomes ~, the emoji that open the image notes are dropped).*)
(***************************************************************************)
EXTENDS Integers, Sequences, FiniteSets, TLC

VARIABLES
    \* ---- the corpus store (knowledge_base.db): rows in rowid order
    markdown_chunks, discourse_chunks,
    \* ---- serving process: module configuration and the loaded context
    AIPIPE_KEY, RAG_STATE,
    \* ---- one query's position and locals (answer_question / ask)
    pc, question, image, q_vec, passages, links, context, prompt, answer,
    api_calls, response,
    \* ---- the locals of the other requests in flight, one record each
    inflight,
    \* ---- build artifacts on disk and the two processes that touch them
    INDEX_BIN, ID_MAP_JSON, build, init,
    \* ---- ingestion inputs (data/course.json, data/discourse.json)
    course_json, discourse_json, ingest

storeVars == <<markdown_chunks, discourse_chunks>>
serveVars == <<AIPIPE_KEY, RAG_STATE>>
queryVars == <<pc, question, image, q_vec, passages, links, context, prompt,
               answer, api_calls, response, inflight>>
embedVars == <<INDEX_BIN, ID_MAP_JSON, build, init>>
ingestVars == <<course_json, discourse_json, ingest>>
vars == <<storeVars, serveVars, queryVars, embedVars, ingestVars>>

\* Python's None, and the value of a local that is not yet bound.
None == "<None>"
\* A file that does not exist, and the RAG_STATE global before _startup
\* binds it.
Absent == [exists |-> FALSE]
Unbound == [bound |-> FALSE]

(***************************************************************************)
(* Bounds of the model.                                                    *)
(***************************************************************************)
\* Largest number of vectors an index holds (TOP_K + 1: k below, at and
\* above the index size all occur).
MaxVectors == 7
\* Largest number of chunks in the store when an index is built
\* (EMBED_BATCH + 1: a build of two batches occurs).
MaxChunks == 9
\* Number of runs of the offline index build.
MaxBuilds == 2
\* Number of runs of the corpus build (scripts/build_db.py).
MaxRuns == 2
\* Number of requests in flight at once.
MaxQueries == 2

(***************************************************************************)
(* Python string primitives.                                               *)
(***************************************************************************)
Min(S) == CHOOSE x \in S : \A y \in S : x <= y
Max(S) == CHOOSE x \in S : \A y \in S : x >= y

\* s[i-1] of Python, as a one-character string.
CharAt(s, i) == SubSeq(s, i, i)

\* str.isspace for the characters the model's texts use.
IsSpace(c) == c \in {" ", "\n", "\t"}

\* s[:n]
Prefix(s, n) == SubSeq(s, 1, IF n < Len(s) THEN n ELSE Len(s))

\* s[n:]
Suffix(s, n) == SubSeq(s, n + 1, Len(s))

\* The 1-based positions at which sub occurs in s.
Occurrences(s, sub) ==
    {i \in 1..(Len(s) - Len(sub) + 1) : SubSeq(s, i, i + Len(sub) - 1) = sub}

\* sub in s
Contains(s, sub) == Occurrences(s, sub) # {}

\* s.startswith(p), s.endswith(p)
StartsWith(s, p) == Len(p) <= Len(s) /\ SubSeq(s, 1, Len(p)) = p
EndsWith(s, p) == Len(p) <= Len(s) /\ SubSeq(s, Len(s) - Len(p) + 1, Len(s)) = p

\* s.split(sub, 1)[0]
SplitFirst(s, sub) ==
    LET P == Occurrences(s, sub)
    IN  IF P # {} THEN SubSeq(s, 1, Min(P) - 1) ELSE s

\* s.replace(a, b) for a one-character a.
RECURSIVE Replace(_, _, _)
Replace(s, a, b) ==
    LET P == Occurrences(s, a)
    IN  IF P = {} THEN s
        ELSE SubSeq(s, 1, Min(P) - 1) \o b \o Replace(Suffix(s, Min(P)), a, b)

\* s.lstrip(), s.rstrip(), s.strip()
RECURSIVE LStrip(_)
LStrip(s) ==
    IF s # "" /\ IsSpace(CharAt(s, 1)) THEN LStrip(Suffix(s, 1)) ELSE s

RECURSIVE RStrip(_)
RStrip(s) ==
    IF s # "" /\ IsSpace(CharAt(s, Len(s))) THEN RStrip(Prefix(s, Len(s) - 1)) ELSE s

Strip(s) == RStrip(LStrip(s))

\* The maximal runs of whitespace and of non-whitespace of s, in order
\* (textwrap's TextWrapper._split, for text without hyphens or dashes).
Tokens(s) ==
    LET starts == SelectSeq([i \in 1..Len(s) |-> i], LAMBDA i :
                     i = 1 \/ IsSpace(CharAt(s, i)) # IsSpace(CharAt(s, i - 1)))
    IN  [k \in 1..Len(starts) |->
            SubSeq(s, starts[k],
                   IF k < Len(starts) THEN starts[k + 1] - 1 ELSE Len(s))]

\* s.split()
Words(s) == SelectSeq(Tokens(s), LAMBDA t : ~IsSpace(CharAt(t, 1)))

\* sep.join(ws)
RECURSIVE Join(_, _)
Join(ws, sep) ==
    IF ws = <<>> THEN ""
    ELSE IF Len(ws) = 1 THEN ws[1]
    ELSE ws[1] \o sep \o Join(Tail(ws), sep)

\* textwrap.shorten(text, width=width, placeholder=placeholder): the text
\* with whitespace collapsed if it fits, else the longest run of leading
\* whole words that fits together with the placeholder.
Shorten(text, width, placeholder) ==
    LET ws == Words(text)
        all == Join(ws, " ")
        fit == {k \in 1..Len(ws) :
                  Len(Join(SubSeq(ws, 1, k), " ")) + Len(placeholder) <= width}
    IN  IF Len(all) <= width THEN all
        ELSE IF fit = {} THEN placeholder
        ELSE Join(SubSeq(ws, 1, Max(fit)), " ") \o placeholder

(***************************************************************************)
(* app/rag.py: configuration and fixed texts.                              *)
(***************************************************************************)
TOP_K == 6
FALLBACK_CHARS == 1500
PREVIEW_WIDTH == 120
PLACEHOLDER == "~"

NO_DOCS == "I couldn't find any relevant documents."
APOLOGY ==
    "Sorry, I had trouble generating a concise answer. "
    \o "Here are relevant passages:\n\n---\n\n"
IMAGE_NOTE == "Image received (current version does not analyze images)."
IMAGE_ERROR == "Image could not be processed: "
MARKER_SORRY == "I'm sorry"
MARKER_CONTEXT == "Based on the provided context"
IMAGE_MARKER == "!["
PROMPT_HEAD ==
    "You are a helpful TA for IIT-M's Tools in Data Science course.\n"
    \o "Use the following forum passages to answer the student's question. "
    \o "Be concise (3-4 sentences) and cite passage numbers like (Passage 2) if needed.\n\n"

Range(f) == {f[x] : x \in DOMAIN f}

RECURSIVE Reverse(_)
Reverse(s) == IF s = <<>> THEN <<>> ELSE Append(Reverse(Tail(s)), Head(s))

(***************************************************************************)
(* faiss.IndexFlatIP.search, as called by _retrieve: the k labels of the   *)
(* stored vectors by descending inner product with the query, the lower    *)
(* ordinal first among equals, and -1 in every slot beyond the index size. *)
(***************************************************************************)
RECURSIVE Dot(_, _)
Dot(a, b) == IF a = <<>> THEN 0 ELSE a[1] * b[1] + Dot(Tail(a), Tail(b))

Search(xb, qv, k) ==
    LET N == Len(xb)
        score(o) == Dot(xb[o + 1], qv)
        before(a, b) == score(a) > score(b) \/ (score(a) = score(b) /\ a < b)
        rank(o) == Cardinality({p \in 0..(N - 1) : before(p, o)}) + 1
    IN  [r \in 1..k |->
            IF r <= N THEN CHOOSE o \in 0..(N - 1) : rank(o) = r ELSE -1]

\* The orders in which the store may yield the rows of one SELECT that has
\* no ORDER BY: a forward or a reverse scan of the table.
StoreOrders == {"forward", "reverse"}

\* SELECT id, text, source_url FROM table WHERE id IN (ids)
SelectIn(table, ids, order) ==
    LET hit == SelectSeq(table, LAMBDA row : row.id \in Range(ids))
        out == [i \in 1..Len(hit) |->
                   [id |-> hit[i].id, text |-> hit[i].text,
                    source_url |-> hit[i].source_url]]
    IN  IF order = "forward" THEN out ELSE Reverse(out)

\* _retrieve: [ok |-> TRUE, rows |-> ...], or the exception it raises.
Retrieve(state, md, dc, qv, order) ==
    LET I == Search(state.index, qv, TOP_K)
        missing == {r \in 1..TOP_K : ToString(I[r]) \notin DOMAIN state.id_map}
    IN  IF missing # {}
        THEN [ok |-> FALSE,
              error |-> "KeyError: '" \o ToString(I[Min(missing)]) \o "'"]
        ELSE LET ids == [r \in 1..TOP_K |-> state.id_map[ToString(I[r])]]
             IN  [ok |-> TRUE,
                  ids |-> ids,
                  rows |-> SelectIn(md, ids, order) \o SelectIn(dc, ids, order)]

\* The links list of answer_question.
Links(ps) ==
    [i \in 1..Len(ps) |->
        [url |-> ps[i].source_url,
         text |-> Shorten(Replace(ps[i].text, "\n", " "), PREVIEW_WIDTH, PLACEHOLDER)]]

\* One cleaned passage of the prompt.
CleanPassage(i, p) ==
    LET text == Strip(Replace(p.text, "\n", " "))
    IN  "(Passage " \o ToString(i) \o ") " \o SplitFirst(text, IMAGE_MARKER)

Context(ps) == Join([i \in 1..Len(ps) |-> CleanPassage(i, ps[i])], "\n\n")

Prompt(ctx, qn) ==
    PROMPT_HEAD \o ctx \o "\n\n" \o "Question: " \o qn \o "\n\n" \o "Answer:"

(***************************************************************************)
(* The generation API, as _ask_ai_pipe sees it: the POST times out, or     *)
(* answers with a status and a JSON body.                                  *)
(***************************************************************************)
Completions ==
    {"", "  Use pandas, see (Passage 1).  ",
     "I'm sorry, I cannot answer that.",
     "Based on the provided context, pandas is used."}

ApiResponses ==
    {[status |-> 0, json |-> [detail |-> "timeout"]],
     [status |-> 500, json |-> [detail |-> "upstream error"]],
     [status |-> 200, json |-> [detail |-> "unexpected shape"]],
     [status |-> 200, json |-> [choices |-> <<>>]]}
    \cup {[status |-> 200, json |-> [choices |-> <<[message |-> [content |-> c]]>>]] :
            c \in Completions}
    \cup {[status |-> 200, json |-> [result |-> c]] : c \in Completions}

\* _ask_ai_pipe(prompt): the text it returns, or the exception it raises.
AskAiPipe(key, resp) ==
    IF ~key THEN [ok |-> FALSE, error |-> "AIPIPE_API_KEY is missing"]
    ELSE IF resp.status = 0 THEN [ok |-> FALSE, error |-> "Timeout"]
    ELSE IF resp.status \notin 200..299 THEN [ok |-> FALSE, error |-> "HTTPError"]
    ELSE LET out == resp.json
         IN  IF "choices" \in DOMAIN out
             THEN IF out.choices = <<>>
                  THEN [ok |-> FALSE, error |-> "IndexError"]
                  ELSE IF "message" \in DOMAIN out.choices[1]
                  THEN [ok |-> TRUE, text |-> Strip(out.choices[1].message.content)]
                  ELSE [ok |-> FALSE, error |-> "Unexpected AIPipe JSON format."]
             ELSE IF "result" \in DOMAIN out
             THEN [ok |-> TRUE, text |-> Strip(out.result)]
             ELSE [ok |-> FALSE, error |-> "Unexpected AIPipe JSON format."]

\* The quality gate of answer_question on a returned text.
\* A weaker detector, which lets an empty completion through.
LowQualityMarkersOnly(text) ==
    Contains(text, MARKER_SORRY) \/ Contains(text, MARKER_CONTEXT)

LowQuality(text) ==
    text = "" \/ Contains(text, MARKER_SORRY) \/ Contains(text, MARKER_CONTEXT)

\* context[:1500]
FallbackBody(ctx) == Prefix(ctx, FALLBACK_CHARS)

Fallback(ctx) == APOLOGY \o FallbackBody(ctx)

\* The answer after the try/except around _ask_ai_pipe.
GeneratedAnswer(key, resp, ctx) ==
    LET r == AskAiPipe(key, resp)
    IN  IF r.ok /\ ~LowQuality(r.text) THEN r.text ELSE Fallback(ctx)

(***************************************************************************)
(* _handle_image: base64.b64decode (non-validating) drops the characters   *)
(* outside the alphabet and fails when the remaining data characters and   *)
(* padding do not make whole quanta.                                       *)
(***************************************************************************)
B64_ALPHABET == "ABCDEFGHIJKLMNOPQRSTUVWXYZabcdefghijklmnopqrstuvwxyz0123456789+/"

B64DecodeError(s) ==
    LET data == Cardinality({i \in 1..Len(s) : Contains(B64_ALPHABET, CharAt(s, i))})
        pad == Cardinality({i \in 1..Len(s) : CharAt(s, i) = "="})
    IN  IF data % 4 = 0 THEN None
        ELSE IF data % 4 = 1
        THEN "Invalid base64-encoded string: number of data characters ("
             \o ToString(data) \o ") cannot be 1 more than a multiple of 4"
        ELSE IF pad >= 4 - (data % 4) THEN None
        ELSE "Incorrect padding"

HandleImage(image_b64) ==
    IF B64DecodeError(image_b64) = None THEN IMAGE_NOTE
    ELSE IMAGE_ERROR \o B64DecodeError(image_b64)

\* Python truthiness of the optional image string.
Truthy(img) == img # None /\ img # ""

(***************************************************************************)
(* The corpora and inputs the serving model is run on.                     *)
(***************************************************************************)
SENTENCE == "lorem ipsum dolor sit amet consectetur adipiscing "
T_LONG == SENTENCE \o SENTENCE \o SENTENCE \o SENTENCE \o SENTENCE \o SENTENCE
T_PANDAS == "Use pandas for dataframes"
T_GIT == "Use git\nfor version control  "
T_IMG == "See the chart ![plot](p.png) and the notes below"

\* The texts of a corpus, by ordinal (repeated cyclically).
TextProfiles ==
    << <<T_LONG>>,
       <<T_PANDAS, T_GIT, T_IMG>> >>

\* The stored embeddings of a corpus, by ordinal.
VecProfiles == {"mix", "flat"}
VecOf(vp, o) == IF vp = "mix" THEN <<(o * 3) % 7>> ELSE <<1>>

\* Embeddings of the incoming question.
QueryVecs == {<<1>>, <<-1>>}
Questions == {"What tool for dataframes?"}
Images == {None, "", "aGk=", "abc"}

\* Which indexed chunks still have their row in the store (the store may
\* have been rebuilt after the index was).
DriftModes == {"none", "first", "empty"}
Kept(mode, N) ==
    IF mode = "none" THEN 0..(N - 1)
    ELSE IF mode = "first" THEN 1..(N - 1)
    ELSE {}

\* f"{item['id']}_{idx}"
ChunkId(doc, idx) == doc \o "_" \o ToString(idx)

CorpusRow(o, tp) ==
    [id |-> ChunkId("doc" \o ToString(o), 0),
     source_url |-> "http://x/" \o ToString(o),
     chunk_index |-> 0,
     text |-> TextProfiles[tp][(o % Len(TextProfiles[tp])) + 1]]

RECURSIVE RowsOf(_, _, _, _)
RowsOf(lo, hi, keep, tp) ==
    IF lo > hi THEN <<>>
    ELSE (IF lo \in keep THEN <<CorpusRow(lo, tp)>> ELSE <<>>)
         \o RowsOf(lo + 1, hi, keep, tp)

\* json.loads of the id map file: keys are the stringified ordinals.
IdMapOf(ids) ==
    [k \in {ToString(o) : o \in 0..(Len(ids) - 1)} |->
        ids[(CHOOSE o \in 0..(Len(ids) - 1) : ToString(o) = k) + 1]]

QueryIdle ==
    /\ pc = "Idle"
    /\ question = None /\ image = None /\ q_vec = None
    /\ passages = <<>> /\ links = <<>>
    /\ context = None /\ prompt = None /\ answer = None
    /\ api_calls = 0 /\ response = None
    /\ inflight = <<>>

EmbedOff ==
    /\ INDEX_BIN = Absent /\ ID_MAP_JSON = Absent
    /\ build = [pc |-> "off"] /\ init = [pc |-> "off"]

IngestOff ==
    /\ course_json = None /\ discourse_json = None
    /\ ingest = [pc |-> "off"]

\* A service whose startup hook has run: an index of N vectors built from
\* a corpus of m course chunks followed by N - m forum chunks.
InitServe ==
    \E N \in 0..MaxVectors, tp \in DOMAIN TextProfiles :
    \E m \in 0..N, vp \in VecProfiles, drift \in DriftModes :
        /\ markdown_chunks = RowsOf(0, m - 1, Kept(drift, N), tp)
        /\ discourse_chunks = RowsOf(m, N - 1, Kept(drift, N), tp)
        /\ AIPIPE_KEY \in BOOLEAN
        /\ RAG_STATE =
              [index |-> [o \in 1..N |-> VecOf(vp, o - 1)],
               id_map |-> IdMapOf([o \in 1..N |-> CorpusRow(o - 1, tp).id])]
        /\ QueryIdle
        /\ EmbedOff
        /\ IngestOff

(***************************************************************************)
(* One query: ask (app/main.py) calling answer_question (app/rag.py).      *)
(***************************************************************************)
\* POST / arrives with a question and an optional image.
Ask(qn, img) ==
    /\ pc = "Idle"
    /\ pc' = "Received"
    /\ question' = qn
    /\ image' = img
    /\ UNCHANGED <<q_vec, passages, links, context, prompt, answer, api_calls,
                   response>>
    /\ UNCHANGED <<storeVars, serveVars, inflight, embedVars, ingestVars>>

\* A retrieval that consumes what it reads: the fetched forum rows are
\* deleted from the store.
RetrieveAndConsume(qv, order) ==
    /\ pc = "Received"
    /\ q_vec' = qv
    /\ LET r == Retrieve(RAG_STATE, markdown_chunks, discourse_chunks, qv, order)
           got == IF r.ok THEN {r.rows[k].id : k \in 1..Len(r.rows)} ELSE {}
       IN  /\ r.ok
           /\ passages' = r.rows
           /\ links' = Links(r.rows)
           /\ pc' = IF r.rows = <<>> THEN "NoResults" ELSE "Retrieved"
           /\ answer' = IF r.rows = <<>> THEN NO_DOCS ELSE answer
           /\ discourse_chunks' =
                 SelectSeq(discourse_chunks, LAMBDA row : row.id \notin got)
    /\ UNCHANGED <<markdown_chunks, question, image, context, prompt, api_calls,
                   response, inflight, serveVars, embedVars, ingestVars>>

\* passages = _retrieve(...); links = [...]; the empty-result short circuit.
RetrieveStep(qv, order) ==
    /\ pc = "Received"
    /\ q_vec' = qv
    /\ LET r == Retrieve(RAG_STATE, markdown_chunks, discourse_chunks, qv, order)
       IN  IF ~r.ok
           THEN /\ pc' = "Raised"
                /\ response' = r.error
                /\ UNCHANGED <<passages, links, answer>>
           ELSE /\ passages' = r.rows
                /\ links' = Links(r.rows)
                /\ response' = response
                /\ IF r.rows = <<>>
                   THEN pc' = "NoResults" /\ answer' = NO_DOCS
                   ELSE pc' = "Retrieved" /\ answer' = answer
    /\ UNCHANGED <<question, image, context, prompt, api_calls>>
    /\ UNCHANGED <<storeVars, serveVars, inflight, embedVars, ingestVars>>

\* cleaned_passages, context and prompt.
PromptStep ==
    /\ pc = "Retrieved"
    /\ context' = Context(passages)
    /\ prompt' = Prompt(context', question)
    /\ pc' = "Generating"
    /\ UNCHANGED <<question, image, q_vec, passages, links, answer, api_calls,
                   response>>
    /\ UNCHANGED <<storeVars, serveVars, inflight, embedVars, ingestVars>>

\* The try/except around _ask_ai_pipe(prompt); the POST is sent only when
\* the key is configured.
GenerateStep(resp) ==
    /\ pc = "Generating"
    /\ api_calls' = IF AIPIPE_KEY THEN api_calls + 1 ELSE api_calls
    /\ answer' = GeneratedAnswer(AIPIPE_KEY, resp, context)
    /\ pc' = IF AskAiPipe(AIPIPE_KEY, resp).ok
                /\ ~LowQuality(AskAiPipe(AIPIPE_KEY, resp).text)
             THEN "Generated" ELSE "FallbackApplied"
    /\ UNCHANGED <<question, image, q_vec, passages, links, context, prompt,
                   response>>
    /\ UNCHANGED <<storeVars, serveVars, inflight, embedVars, ingestVars>>

\* if image: answer += "\n\n" + _handle_image(image)
ImageStep ==
    /\ pc \in {"Generated", "FallbackApplied"}
    /\ Truthy(image)
    /\ answer' = answer \o "\n\n" \o HandleImage(image)
    /\ pc' = "ImageNoteAppended"
    /\ UNCHANGED <<question, image, q_vec, passages, links, context, prompt,
                   api_calls, response>>
    /\ UNCHANGED <<storeVars, serveVars, inflight, embedVars, ingestVars>>

\* return {"answer": answer, "links": links}
Respond ==
    /\ \/ pc = "NoResults"
       \/ pc \in {"Generated", "FallbackApplied"} /\ ~Truthy(image)
       \/ pc = "ImageNoteAppended"
    /\ response' = [answer |-> answer, links |-> links]
    /\ pc' = "Responded"
    /\ UNCHANGED <<question, image, q_vec, passages, links, context, prompt,
                   answer, api_calls>>
    /\ UNCHANGED <<storeVars, serveVars, inflight, embedVars, ingestVars>>

\* ask: except Exception as e: raise HTTPException(status_code=500, ...)
AskError ==
    /\ pc = "Raised"
    /\ response' = [status_code |-> 500, detail |-> response]
    /\ pc' = "Failed"
    /\ UNCHANGED <<question, image, q_vec, passages, links, context, prompt,
                   answer, api_calls>>
    /\ UNCHANGED <<storeVars, serveVars, inflight, embedVars, ingestVars>>

NextServe ==
    \/ \E qn \in Questions, img \in Images : Ask(qn, img)
    \/ \E qv \in QueryVecs, order \in StoreOrders : RetrieveStep(qv, order)
    \/ PromptStep
    \/ \E resp \in ApiResponses : GenerateStep(resp)
    \/ ImageStep
    \/ Respond
    \/ AskError

SpecServe == InitServe /\ [][NextServe]_vars

(***************************************************************************)
(* Claims about serving (checked under SpecServe).                         *)
(***************************************************************************)
\* The states in which answer_question holds a retrieved passage list.
HasPassages ==
    pc \in {"NoResults", "Retrieved", "Generating", "Generated",
            "FallbackApplied", "ImageNoteAppended", "Responded"}

\* The search result of the current query and the rank of a chunk id in it.
SearchOrdinals == Search(RAG_STATE.index, q_vec, TOP_K)
RankOfId(id) ==
    Min({r \in 1..TOP_K : RAG_STATE.id_map[ToString(SearchOrdinals[r])] = id})

\* C1: the passages returned by _retrieve, and the links built from them,
\* are in the similarity-rank order of the ordinals the index search
\* returned, whichever table a row lives in and whichever order the store
\* yields rows in.
C1_RankOrderPreserved ==
    HasPassages =>
        /\ \A i, j \in 1..Len(passages) :
              i < j => RankOfId(passages[i].id) < RankOfId(passages[j].id)
        /\ Len(links) = Len(passages)
        /\ \A i \in 1..Len(links) : links[i].url = passages[i].source_url

\* The generation call fails as seen from the wire: no key, a timeout, a
\* non-2xx status, a body of no recognised shape, or a returned text that
\* is empty or holds a low-quality marker.
ReturnedText(out) ==
    IF "choices" \in DOMAIN out THEN Strip(out.choices[1].message.content)
    ELSE Strip(out.result)

GenerationFails(key, resp) ==
    \/ ~key
    \/ resp.status # 200
    \/ "choices" \in DOMAIN resp.json /\ resp.json.choices = <<>>
    \/ DOMAIN resp.json \cap {"choices", "result"} = {}
    \/ ReturnedText(resp.json) = ""
    \/ Contains(ReturnedText(resp.json), MARKER_SORRY)
    \/ Contains(ReturnedText(resp.json), MARKER_CONTEXT)

\* C2: with a non-empty passage list, whenever the generation call raises
\* or returns an empty or low-quality text, the answer is the fixed apology
\* followed by the first 1500 characters of the passage context; the query
\* then goes on to its response (never to an exception), the answer only
\* gaining the image note on the way.
C2_FallbackOnFailure ==
    [][ /\ \A resp \in ApiResponses :
              GenerateStep(resp) /\ GenerationFails(AIPIPE_KEY, resp) =>
                  /\ passages # <<>>
                  /\ pc' = "FallbackApplied"
                  /\ answer' = APOLOGY \o SubSeq(context, 1,
                        IF Len(context) < 1500 THEN Len(context) ELSE 1500)
        /\ \/ pc = "FallbackApplied"
           \/ pc = "ImageNoteAppended" /\ StartsWith(answer, APOLOGY)
           => /\ pc' \in {"ImageNoteAppended", "Responded"}
              /\ StartsWith(answer', answer)
              /\ pc' = "Responded" =>
                    response' = [answer |-> answer, links |-> links]
      ]_vars

\* The fallback was applied to a context longer than the budget.
C2_Witness ==
    /\ pc = "FallbackApplied"
    /\ Len(context) > 1500
    /\ Len(answer) = Len(APOLOGY) + 1500

\* C3: the answer returned for a call whose image argument is not None
\* ends with the fixed image acknowledgment note.
C3_ImageNoteAlways ==
    pc = "Responded" /\ image # None => EndsWith(response.answer, IMAGE_NOTE)

\* C4: on an index of zero vectors _retrieve returns the empty list and
\* answer_question returns the fixed "no relevant documents" answer with no
\* links, without raising and without calling the generation API.
C4_EmptyCorpusAnswer ==
    Len(RAG_STATE.index) = 0 /\ pc \notin {"Idle", "Received"} =>
        /\ pc \in {"NoResults", "Responded"}
        /\ passages = <<>>
        /\ api_calls = 0
        /\ pc = "Responded" => response = [answer |-> NO_DOCS, links |-> <<>>]

\* C5: a query moves along the path Received, (NoResults | Retrieved,
\* Generating, Generated | FallbackApplied), optional ImageNoteAppended,
\* Responded, and never leaves it for an error; it calls the generation API
\* at most once and in Responded it holds an {answer, links} value.
C5_QueryResponds ==
    /\ pc \in {"Idle", "Received", "NoResults", "Retrieved", "Generating",
               "Generated", "FallbackApplied", "ImageNoteAppended", "Responded"}
    /\ api_calls <= 1
    /\ pc = "Responded" => DOMAIN response = {"answer", "links"}

\* C9: on an index of N vectors, 0 < N < TOP_K, a query does not error and
\* _retrieve returns exactly the stored rows of those N chunks.
C9_SmallIndexRetrieves ==
    Len(RAG_STATE.index) \in 1..(TOP_K - 1) /\ pc \notin {"Idle", "Received"} =>
        /\ pc \notin {"Raised", "Failed"}
        /\ {passages[i].id : i \in 1..Len(passages)}
              = Range(RAG_STATE.id_map)
                  \cap {row.id : row \in Range(markdown_chunks)
                                         \cup Range(discourse_chunks)}
        /\ Len(passages) <= Len(RAG_STATE.index)

(***************************************************************************)
(* embed_local.py: the offline index build.                                *)
(***************************************************************************)
EMBED_BATCH == 8

\* TextEmbedding.embed of one text: the embedding model is a deterministic
\* function of the text, kept symbolic.
Embed(text) == [embedding_of |-> text]

\* rows(conn): SELECT id, text FROM markdown_chunks UNION ALL
\*             SELECT id, text FROM discourse_chunks WHERE text IS NOT NULL
Rows(md, dc) ==
    [i \in 1..Len(md) |-> <<md[i].id, md[i].text>>]
    \o SelectSeq([i \in 1..Len(dc) |-> <<dc[i].id, dc[i].text>>],
                 LAMBDA r : r[2] # None)

\* batch(seq, size), the i-th slice (from 0).
Batch(seq, size, i) ==
    SubSeq(seq, i * size + 1,
           IF (i + 1) * size < Len(seq) THEN (i + 1) * size ELSE Len(seq))

\* The vectors list after batch i, which the embedder either embeds whole
\* or fails on (the except branch skips the batch).
VectorsAfterBatch(vectors, text_batch, embedded) ==
    IF embedded
    THEN vectors \o [j \in 1..Len(text_batch) |-> Embed(text_batch[j])]
    ELSE vectors

\* json.dumps({i: ids[i] for i in range(len(ids))}): the keys become strings.
MappingOf(ids) == IdMapOf(ids)

BuildRunning ==
    build.pc \in {"embedding", "write_map", "write_index"}

ForumRow(o) ==
    [id |-> ChunkId(ToString(100 + o), 0),
     source_url |-> "http://forum/t/-/" \o ToString(o) \o "/1",
     chunk_index |-> 0,
     text |-> "post " \o ToString(o)]

PageRow ==
    [id |-> ChunkId("readme", 0),
     source_url |-> "http://raw/README.md",
     chunk_index |-> 0,
     text |-> "course notes"]

RECURSIVE ForumRows(_, _)
ForumRows(lo, hi) ==
    IF lo > hi THEN <<>> ELSE <<ForumRow(lo)>> \o ForumRows(lo + 1, hi)

\* No artifact on disk, a store of up to MaxChunks chunks, the service not
\* started.
InitEmbed ==
    \E pages \in 0..1 : \E posts \in 0..(MaxChunks - pages) :
        /\ markdown_chunks = (IF pages = 1 THEN <<PageRow>> ELSE <<>>)
        /\ discourse_chunks = ForumRows(1, posts)
        /\ AIPIPE_KEY = TRUE
        /\ RAG_STATE = Unbound
        /\ QueryIdle
        /\ INDEX_BIN = Absent /\ ID_MAP_JSON = Absent
        /\ build = [pc |-> "idle", run |-> 0, ids |-> <<>>, texts |-> <<>>,
                    vectors |-> <<>>, i |-> 0]
        /\ init = [pc |-> "idle", index |-> None, index_from |-> 0, id_map_from |-> 0]
        /\ IngestOff

\* A forum post is ingested into the store.
AppendPost ==
    /\ Len(markdown_chunks) + Len(discourse_chunks) < MaxChunks
    /\ discourse_chunks' =
          Append(discourse_chunks, ForumRow(Len(discourse_chunks) + 1))
    /\ UNCHANGED <<markdown_chunks, serveVars, queryVars, embedVars, ingestVars>>

\* main: ids, texts = zip(*[...rows(conn)]); unpacking fails on no rows.
BuildStart ==
    /\ build.pc \in {"idle", "done", "crashed"}
    /\ build.run < MaxBuilds
    /\ LET rs == Rows(markdown_chunks, discourse_chunks)
       IN  build' =
             IF rs = <<>>
             THEN [build EXCEPT !.pc = "crashed", !.run = @ + 1]
             ELSE [pc |-> "embedding", run |-> build.run + 1,
                   ids |-> [k \in 1..Len(rs) |-> rs[k][1]],
                   texts |-> [k \in 1..Len(rs) |-> rs[k][2]],
                   vectors |-> <<>>, i |-> 0]
    /\ UNCHANGED <<storeVars, serveVars, queryVars, INDEX_BIN, ID_MAP_JSON, init,
                   ingestVars>>

\* One turn of the embedding loop: the batch is embedded, or it raises and
\* is skipped.
EmbedBatch(embedded) ==
    /\ build.pc = "embedding"
    /\ build.i * EMBED_BATCH < Len(build.texts)
    /\ build' = [build EXCEPT
          !.vectors = VectorsAfterBatch(@, Batch(build.texts, EMBED_BATCH, build.i),
                                        embedded),
          !.i = @ + 1]
    /\ UNCHANGED <<storeVars, serveVars, queryVars, INDEX_BIN, ID_MAP_JSON, init,
                   ingestVars>>

\* np.vstack(vectors) (fails on an empty list), IndexFlatIP, index.add.
StackVectors ==
    /\ build.pc = "embedding"
    /\ build.i * EMBED_BATCH >= Len(build.texts)
    /\ build' = [build EXCEPT
          !.pc = IF build.vectors = <<>> THEN "crashed" ELSE "write_map"]
    /\ UNCHANGED <<storeVars, serveVars, queryVars, INDEX_BIN, ID_MAP_JSON, init,
                   ingestVars>>

\* (INDEX.parent / "faiss_ids.json").write_text(json.dumps(mapping))
WriteIdMap ==
    /\ build.pc = "write_map"
    /\ ID_MAP_JSON' = [exists |-> TRUE, build |-> build.run,
                       mapping |-> MappingOf(build.ids)]
    /\ build' = [build EXCEPT !.pc = "write_index"]
    /\ UNCHANGED <<storeVars, serveVars, queryVars, INDEX_BIN, init, ingestVars>>

\* faiss.write_index(index, str(INDEX))
WriteIndex ==
    /\ build.pc = "write_index"
    /\ INDEX_BIN' = [exists |-> TRUE, build |-> build.run,
                     vectors |-> build.vectors]
    /\ build' = [build EXCEPT !.pc = "done"]
    /\ UNCHANGED <<storeVars, serveVars, queryVars, ID_MAP_JSON, init, ingestVars>>

\* The build process dies (killed, out of memory, interrupted).
BuildCrash ==
    /\ BuildRunning
    /\ build' = [build EXCEPT !.pc = "crashed"]
    /\ UNCHANGED <<storeVars, serveVars, queryVars, INDEX_BIN, ID_MAP_JSON, init,
                   ingestVars>>

(***************************************************************************)
(* app/rag.py init_rag, run by the startup hook of app/main.py.            *)
(***************************************************************************)
\* if not (INDEX_BIN.exists() and ID_MAP_JSON.exists()): raise RuntimeError
ArtifactsPresent(index_file, map_file) == index_file.exists /\ map_file.exists

InitCheck ==
    /\ init.pc = "idle"
    /\ init' = [init EXCEPT
          !.pc = IF ArtifactsPresent(INDEX_BIN, ID_MAP_JSON) THEN "checked" ELSE "failed"]
    /\ UNCHANGED <<storeVars, serveVars, queryVars, INDEX_BIN, ID_MAP_JSON, build,
                   ingestVars>>

\* conn = sqlite3.connect(DB_PATH); index = faiss.read_index(str(INDEX_BIN))
InitReadIndex ==
    /\ init.pc = "checked"
    /\ init' = [init EXCEPT !.pc = "index_read", !.index = INDEX_BIN.vectors,
                            !.index_from = INDEX_BIN.build]
    /\ UNCHANGED <<storeVars, serveVars, queryVars, INDEX_BIN, ID_MAP_JSON, build,
                   ingestVars>>

\* The context init_rag returns from the index read and the id map file.
LoadedState(index, map_file) == [index |-> index, id_map |-> map_file.mapping]

\* id_map = json.loads(ID_MAP_JSON.read_text()); embedder; return {...};
\* _startup binds RAG_STATE and the service starts serving.
InitReadIdMap ==
    /\ init.pc = "index_read"
    /\ RAG_STATE' = LoadedState(init.index, ID_MAP_JSON)
    /\ init' = [init EXCEPT !.pc = "loaded", !.id_map_from = ID_MAP_JSON.build]
    /\ UNCHANGED <<storeVars, AIPIPE_KEY, queryVars, INDEX_BIN, ID_MAP_JSON, build,
                   ingestVars>>

NextEmbed ==
    \/ AppendPost
    \/ BuildStart
    \/ \E embedded \in BOOLEAN : EmbedBatch(embedded)
    \/ StackVectors
    \/ WriteIdMap
    \/ WriteIndex
    \/ BuildCrash
    \/ InitCheck
    \/ InitReadIndex
    \/ InitReadIdMap

SpecEmbed == InitEmbed /\ [][NextEmbed]_vars

(***************************************************************************)
(* Claims about the index build and service start (checked under           *)
(* SpecEmbed).                                                             *)
(***************************************************************************)
\* The text of the chunk the running build read under an id.
BuildTextOf(id) == build.texts[CHOOSE k \in 1..Len(build.ids) : build.ids[k] = id]

\* C6: when the index build completes, whatever batches were skipped, the
\* written id map has as many entries as the written index has vectors,
\* its ordinals are 0..N-1, and ordinal i maps to the id of the chunk whose
\* text produced the vector at position i.
C6_IndexMapConsistent ==
    build.pc = "done" =>
        LET N == Len(INDEX_BIN.vectors)
            mapping == ID_MAP_JSON.mapping
        IN  /\ Cardinality(DOMAIN mapping) = N
            /\ DOMAIN mapping = {ToString(o) : o \in 0..(N - 1)}
            /\ \A o \in 0..(N - 1) :
                  /\ ToString(o) \in DOMAIN mapping
                  /\ INDEX_BIN.vectors[o + 1] = Embed(BuildTextOf(mapping[ToString(o)]))

\* C7: init_rag succeeds only if both artifacts are present and the loaded
\* index holds as many vectors as the id map has entries; otherwise the
\* service never comes up.
C7_InitRejectsMismatch ==
    init.pc = "loaded" =>
        /\ INDEX_BIN.exists /\ ID_MAP_JSON.exists
        /\ Len(RAG_STATE.index) = Cardinality(DOMAIN RAG_STATE.id_map)

\* C10: however a build and a service start interleave, the index and the
\* id map the service has loaded were written by one and the same build
\* (which therefore wrote both, i.e. ran to completion).
C10_LoadsOneBuild ==
    init.pc = "loaded" =>
        /\ init.index_from = init.id_map_from
        /\ init.index_from \in 1..MaxBuilds

(***************************************************************************)
(* scripts/build_db.py: chunking and the corpus build.                     *)
(***************************************************************************)
CHUNK_SIZE == 1000

\* The number of leading chunks whose lengths sum to at most room.
RECURSIVE TakeFit(_, _)
TakeFit(chunks, room) ==
    IF chunks = <<>> \/ Len(chunks[1]) > room THEN 0
    ELSE 1 + TakeFit(Tail(chunks), room - Len(chunks[1]))

\* TextWrapper._wrap_chunks (drop_whitespace, break_long_words): one line
\* per turn of its outer loop; have_lines tells whether a line was emitted.
RECURSIVE WrapChunks(_, _, _)
WrapChunks(chunks, width, have_lines) ==
    IF chunks = <<>> THEN <<>>
    ELSE
      LET cs == IF have_lines /\ Strip(chunks[1]) = "" THEN Tail(chunks) ELSE chunks
          k == TakeFit(cs, width)
          taken == SubSeq(cs, 1, k)
          rest == SubSeq(cs, k + 1, Len(cs))
          cur_len == Len(Join(taken, ""))
          long == rest # <<>> /\ Len(rest[1]) > width
          \* _handle_long_word: the word's head fills the line
          line1 == IF long THEN Append(taken, Prefix(rest[1], width - cur_len))
                   ELSE taken
          rest1 == IF long
                   THEN <<Suffix(rest[1], width - cur_len)>> \o Tail(rest)
                   ELSE rest
          line2 == IF line1 # <<>> /\ Strip(line1[Len(line1)]) = ""
                   THEN SubSeq(line1, 1, Len(line1) - 1) ELSE line1
      IN  IF line2 # <<>>
          THEN <<Join(line2, "")>> \o WrapChunks(rest1, width, TRUE)
          ELSE WrapChunks(rest1, width, have_lines)

\* A chunker that does not split: the whole body is one chunk.
WrapWhole(text, width) == <<text>>

\* textwrap.wrap(text, width): whitespace characters become spaces, the
\* text is split into runs of whitespace and words, the runs are packed.
Wrap(text, width) == WrapChunks(Tokens(Replace(text, "\n", " ")), width, FALSE)

\* body = item.get(text_key, "") or ""
Body(item, text_key) ==
    IF text_key \notin DOMAIN item \/ item[text_key] = None THEN "" ELSE item[text_key]

\* The rows insert_chunks builds from one item.
ItemRows(item, text_key) ==
    IF Strip(Body(item, text_key)) = "" THEN <<>>
    ELSE LET chunks == Wrap(Body(item, text_key), CHUNK_SIZE)
         IN  [k \in 1..Len(chunks) |->
                [id |-> ChunkId(item.id, k - 1),
                 source_url |-> item.url,
                 chunk_index |-> k - 1,
                 text |-> chunks[k]]]

\* The rows list of insert_chunks, in item order.
RECURSIVE BuildRows(_, _)
BuildRows(items, text_key) ==
    IF items = <<>> THEN <<>>
    ELSE ItemRows(items[1], text_key) \o BuildRows(Tail(items), text_key)

\* INSERT OR REPLACE of one row: a row of the same id is deleted and the
\* new row is stored last.
Upsert(table, row) == SelectSeq(table, LAMBDA r : r.id # row.id) \o <<row>>

\* conn.executemany("INSERT OR REPLACE INTO table VALUES (?,?,?,?,?)", rows)
RECURSIVE InsertOrReplace(_, _)
InsertOrReplace(table, rows) ==
    IF rows = <<>> THEN table
    ELSE InsertOrReplace(Upsert(table, rows[1]), Tail(rows))

\* insert_chunks(table, items, conn, text_key=...): the table afterwards.
InsertChunks(table, items, text_key) ==
    InsertOrReplace(table, BuildRows(items, text_key))

(***************************************************************************)
(* app/scraper/course.py: the ids of course pages.                         *)
(***************************************************************************)
UPPER == "ABCDEFGHIJKLMNOPQRSTUVWXYZ"
LOWER == "abcdefghijklmnopqrstuvwxyz"

\* str.lower for ASCII text.
LowerChar(c) ==
    IF Contains(UPPER, c) THEN CharAt(LOWER, Min(Occurrences(UPPER, c))) ELSE c
Lower(s) == Join([i \in 1..Len(s) |-> LowerChar(CharAt(s, i))], "")

\* pathlib.Path(path).name and .stem
PathName(path) ==
    IF Contains(path, "/") THEN Suffix(path, Max(Occurrences(path, "/"))) ELSE path
PathStem(path) ==
    LET name == PathName(path)
        dots == Occurrences(name, ".") \ {1, Len(name)}
    IN  IF dots = {} THEN name ELSE Prefix(name, Max(dots) - 1)

\* slug_from_path
SlugFromPath(path) == Replace(Lower(PathStem(path)), " ", "-")

\* data/course.json as course.py main writes it: one item per page, the
\* id being the slug of the page's path.
RAW == "https://raw.githubusercontent.com/sanand0/tools-in-data-science-public/main"
CourseItem(page) ==
    [id |-> SlugFromPath(page.path),
     url |-> RAW \o "/" \o page.path,
     text |-> Shorten(page.plain, 10000, " ~")]
CourseItems(pages) == [k \in 1..Len(pages) |-> CourseItem(pages[k])]

(***************************************************************************)
(* app/scraper/discourse.py: data/discourse.json as crawl_posts harvests   *)
(* it.  A post id is an integer; it is held here in the decimal rendering  *)
(* that the f-string of insert_chunks gives it.                            *)
(***************************************************************************)
BASE_URL == "https://discourse.onlinedegree.iitm.ac.in"
PostItem(post) ==
    [id |-> ToString(post.id),
     url |-> BASE_URL \o "/t/-/" \o ToString(post.topic_id) \o "/"
               \o ToString(post.post_number),
     raw |-> post.raw]
PostItems(posts) == [k \in 1..Len(posts) |-> PostItem(posts[k])]

(***************************************************************************)
(* The document collections the ingestion model is run on.                 *)
(***************************************************************************)
X50 == "xxxxxxxxxxxxxxxxxxxxxxxxxxxxxxxxxxxxxxxxxxxxxxxxxx"
X400 == X50 \o X50 \o X50 \o X50 \o X50 \o X50 \o X50 \o X50
D_SHORT == "Use pandas for dataframes"
D_TWO == X400 \o " " \o X400 \o " " \o X400
D_LONGWORD == X400 \o X400 \o X400
D_BLANK == " \n "

PAGE_README == [path |-> "README.md", plain |-> D_TWO]
PAGE_WEEK1 == [path |-> "week1/Readme.md", plain |-> D_SHORT]
PAGE_PREP == [path |-> "Data Prep.md", plain |-> D_LONGWORD]
PAGE_7 == [path |-> "notes/7.md", plain |-> D_SHORT]
PAGE_EMPTY == [path |-> "empty.md", plain |-> D_BLANK]

POST_7 == [id |-> 7, topic_id |-> 3, post_number |-> 1, raw |-> D_SHORT]
POST_8 == [id |-> 8, topic_id |-> 3, post_number |-> 2, raw |-> D_TWO]
POST_9 == [id |-> 9, topic_id |-> 4, post_number |-> 1, raw |-> None]
POST_10 == [id |-> 10, topic_id |-> 4, post_number |-> 2, raw |-> D_BLANK]
POST_11 == [id |-> 11, topic_id |-> 5, post_number |-> 1,
            raw |-> " " \o D_LONGWORD \o "\n" \o D_SHORT \o "  "]
POST_12 == [id |-> 12, topic_id |-> 5, post_number |-> 2, raw |-> ""]

CourseVersions ==
    {<<PAGE_PREP, PAGE_EMPTY>>, <<PAGE_README, PAGE_PREP>>,
     <<PAGE_README, PAGE_WEEK1>>, <<PAGE_7>>}
ForumVersions ==
    {<<POST_9>>, <<POST_7, POST_8>>, <<POST_8, POST_9>>,
     <<POST_10, POST_11, POST_12>>}

\* A fresh database and no scraped data yet.
InitIngest ==
    /\ markdown_chunks = <<>> /\ discourse_chunks = <<>>
    /\ AIPIPE_KEY = TRUE
    /\ RAG_STATE = Unbound
    /\ QueryIdle
    /\ EmbedOff
    /\ course_json = Absent /\ discourse_json = Absent
    /\ ingest = [pc |-> "idle", run |-> 0]

\* The course scraper writes data/course.json.
ScrapeCourse(pages) ==
    /\ ingest.pc \in {"idle", "done"}
    /\ ingest.run < MaxRuns
    /\ course_json' = [exists |-> TRUE, items |-> CourseItems(pages)]
    /\ UNCHANGED <<storeVars, serveVars, queryVars, embedVars, discourse_json, ingest>>

\* The forum scraper writes data/discourse.json.
ScrapeForum(posts) ==
    /\ ingest.pc \in {"idle", "done"}
    /\ ingest.run < MaxRuns
    /\ discourse_json' = [exists |-> TRUE, items |-> PostItems(posts)]
    /\ UNCHANGED <<storeVars, serveVars, queryVars, embedVars, course_json, ingest>>

\* build_db.main: conn = sqlite3.connect(db_file)
BuildDbStart ==
    /\ ingest.pc \in {"idle", "done"}
    /\ ingest.run < MaxRuns
    /\ ingest' = [pc |-> "course", run |-> ingest.run + 1]
    /\ UNCHANGED <<storeVars, serveVars, queryVars, embedVars, course_json,
                   discourse_json>>

\* if course_path.exists(): insert_chunks("markdown_chunks", ..., text_key="text")
IngestCourse ==
    /\ ingest.pc = "course"
    /\ markdown_chunks' =
          IF course_json.exists
          THEN InsertChunks(markdown_chunks, course_json.items, "text")
          ELSE markdown_chunks
    /\ ingest' = [ingest EXCEPT !.pc = "forum"]
    /\ UNCHANGED <<discourse_chunks, serveVars, queryVars, embedVars, course_json,
                   discourse_json>>

\* if discourse_path.exists(): insert_chunks("discourse_chunks", ..., text_key="raw")
IngestForum ==
    /\ ingest.pc = "forum"
    /\ discourse_chunks' =
          IF discourse_json.exists
          THEN InsertChunks(discourse_chunks, discourse_json.items, "raw")
          ELSE discourse_chunks
    /\ ingest' = [ingest EXCEPT !.pc = "done"]
    /\ UNCHANGED <<markdown_chunks, serveVars, queryVars, embedVars, course_json,
                   discourse_json>>

NextIngest ==
    \/ \E pages \in CourseVersions : ScrapeCourse(pages)
    \/ \E posts \in ForumVersions : ScrapeForum(posts)
    \/ BuildDbStart
    \/ IngestCourse
    \/ IngestForum

SpecIngest == InitIngest /\ [][NextIngest]_vars

(***************************************************************************)
(* Claims about ingestion (checked under SpecIngest).                      *)
(***************************************************************************)
\* The number of chunks the chunker produces from a collection file.
ChunksProduced(file, text_key) ==
    IF file.exists THEN Len(BuildRows(file.items, text_key)) ELSE 0

StoredIds ==
    {markdown_chunks[k].id : k \in 1..Len(markdown_chunks)}
    \cup {discourse_chunks[k].id : k \in 1..Len(discourse_chunks)}

\* C8: when one run of the ingestion on a fresh store has taken in a course
\* collection and a forum collection which together produce M chunks, the
\* store holds M rows with M distinct chunk ids over both tables: no id
\* occurs twice, and no chunk is lost to an id collision.
C8_ChunkIdsUnique ==
    [][ IngestForum /\ ingest.run = 1 /\ course_json.exists /\ discourse_json.exists =>
           LET M == ChunksProduced(course_json, "text")
                    + ChunksProduced(discourse_json, "raw")
           IN  /\ Len(markdown_chunks') + Len(discourse_chunks') = M
               /\ Cardinality(StoredIds') = M
      ]_vars

\* A text made of whitespace only (the empty text included).
Blank(s) == \A i \in 1..Len(s) : IsSpace(CharAt(s, i))

\* An item whose text is missing, null, empty or whitespace-only.
NoText(item, text_key) ==
    \/ text_key \notin DOMAIN item
    \/ item[text_key] = None
    \/ Blank(item[text_key])

\* The rows of a table which come from the document at url.
RowsFor(table, url) == SelectSeq(table, LAMBDA r : r.source_url = url)

\* The rows of a table all hold between 1 and CHUNK_SIZE characters.
ChunksBounded(table) ==
    \A k \in 1..Len(table) : Len(table[k].text) \in 1..CHUNK_SIZE

\* An ingestion of items into a table (old to new) adds no row for any item
\* without text.
NoRowsForNoText(items, text_key, old, new) ==
    \A k \in 1..Len(items) :
        NoText(items[k], text_key) =>
            RowsFor(new, items[k].url) = RowsFor(old, items[k].url)

\* C11: every chunk that insert_chunks stores is non-empty and holds at most
\* CHUNK_SIZE (1000) characters, and a document whose text is empty, missing
\* or whitespace-only produces no row.
C11_ChunkSizeBound ==
    [][ /\ ChunksBounded(markdown_chunks')
        /\ ChunksBounded(discourse_chunks')
        /\ IngestCourse /\ course_json.exists =>
              NoRowsForNoText(course_json.items, "text",
                              markdown_chunks, markdown_chunks')
        /\ IngestForum /\ discourse_json.exists =>
              NoRowsForNoText(discourse_json.items, "raw",
                              discourse_chunks, discourse_chunks')
      ]_vars

\* A forum collection with a word longer than CHUNK_SIZE and posts without
\* text has been ingested: a full chunk is stored, and the over-long word's
\* remainder after it.
C11_Witness ==
    /\ ingest.pc = "done"
    /\ discourse_json.exists
    /\ \E k \in 1..Len(discourse_json.items) : NoText(discourse_json.items[k], "raw")
    /\ \E k \in 1..Len(discourse_chunks) :
          /\ Len(discourse_chunks[k].text) = CHUNK_SIZE
          /\ discourse_chunks[k].chunk_index = 0
          /\ discourse_chunks[k].source_url = PostItem(POST_11).url
    /\ \E k \in 1..Len(discourse_chunks) :
          /\ discourse_chunks[k].chunk_index = 1
          /\ discourse_chunks[k].source_url = PostItem(POST_11).url

\* The rows a build of the collection file leaves in a fresh table.
FreshBuild(file, text_key) == Range(InsertChunks(<<>>, file.items, text_key))

\* C12: when a run of build_db.main over the current collections ends, the
\* store holds exactly the chunks derived from those collections: a row
\* whose id the latest build does not produce (its document was removed or
\* became shorter) is gone, whatever earlier runs had stored.
C12_RebuildReplaces ==
    [][ IngestForum /\ course_json.exists /\ discourse_json.exists =>
           /\ Range(markdown_chunks') = FreshBuild(course_json, "text")
           /\ Range(discourse_chunks') = FreshBuild(discourse_json, "raw")
      ]_vars

(***************************************************************************)
(* Several requests against one loaded service (app/main.py ask, one call  *)
(* of answer_question each).  The variables pc .. response hold the locals *)
(* of the request that is running; inflight holds those of the others.     *)
(* ask is a coroutine that never awaits, so the event loop runs one request*)
(* to its end before the next; the schedules here, in which any request    *)
(* may take the next step, include those of a threaded deployment too.     *)
(***************************************************************************)
\* The locals of the running request, and of a request not yet received.
Locals ==
    [pc |-> pc, question |-> question, image |-> image, q_vec |-> q_vec,
     passages |-> passages, links |-> links, context |-> context,
     prompt |-> prompt, answer |-> answer, api_calls |-> api_calls,
     response |-> response]
IdleLocals ==
    [pc |-> "Idle", question |-> None, image |-> None, q_vec |-> None,
     passages |-> <<>>, links |-> <<>>, context |-> None, prompt |-> None,
     answer |-> None, api_calls |-> 0, response |-> None]

\* The running request's locals become those of record l.
Load(l) ==
    /\ pc' = l.pc /\ question' = l.question /\ image' = l.image
    /\ q_vec' = l.q_vec /\ passages' = l.passages /\ links' = l.links
    /\ context' = l.context /\ prompt' = l.prompt /\ answer' = l.answer
    /\ api_calls' = l.api_calls /\ response' = l.response

\* The inputs of the requests.
QueryImages == {None, "aGk="}
QueryVec == <<1>>

\* A loaded service (too few or enough vectors for a full search result),
\* MaxQueries request slots, none of them received yet.
InitQueries ==
    \E N \in {3, MaxVectors}, drift \in {"none", "first"} :
        /\ markdown_chunks = RowsOf(0, 0, Kept(drift, N), 2)
        /\ discourse_chunks = RowsOf(1, N - 1, Kept(drift, N), 2)
        /\ AIPIPE_KEY = TRUE
        /\ RAG_STATE =
              [index |-> [o \in 1..N |-> VecOf("mix", o - 1)],
               id_map |-> IdMapOf([o \in 1..N |-> CorpusRow(o - 1, 2).id])]
        /\ pc = "Idle"
        /\ question = None /\ image = None /\ q_vec = None
        /\ passages = <<>> /\ links = <<>>
        /\ context = None /\ prompt = None /\ answer = None
        /\ api_calls = 0 /\ response = None
        /\ inflight = [k \in 1..(MaxQueries - 1) |-> IdleLocals]
        /\ EmbedOff
        /\ IngestOff

\* Another request takes the next step: the running one is set aside.
Switch(k) ==
    /\ Load(inflight[k])
    /\ inflight' = [inflight EXCEPT ![k] = Locals]
    /\ UNCHANGED <<storeVars, serveVars, embedVars, ingestVars>>

\* The handler has returned (a response or an HTTP 500); its slot takes the
\* next request.
NextRequest ==
    /\ pc \in {"Responded", "Failed"}
    /\ Load(IdleLocals)
    /\ UNCHANGED <<storeVars, serveVars, inflight, embedVars, ingestVars>>

NextQueries ==
    \/ \E qn \in Questions, img \in QueryImages : Ask(qn, img)
    \/ RetrieveStep(QueryVec, "forward")
    \/ PromptStep
    \/ \E resp \in ApiResponses : GenerateStep(resp)
    \/ ImageStep
    \/ Respond
    \/ AskError
    \/ NextRequest
    \/ \E k \in 1..Len(inflight) : Switch(k)

SpecQueries == InitQueries /\ [][NextQueries]_vars

(***************************************************************************)
(* Claims about concurrent requests (checked under SpecQueries).           *)
(***************************************************************************)
\* C13: no step of any request, on any path and with other requests running
\* before or alongside it, changes the loaded index, the id map or either
\* corpus table; so the links a request responds with are those of a
\* retrieval against the shared state as it then is, whatever the others
\* did.
C13_ServingStateUnchanged ==
    [][ /\ RAG_STATE' = RAG_STATE
        /\ markdown_chunks' = markdown_chunks
        /\ discourse_chunks' = discourse_chunks
        /\ pc # "Responded" /\ pc' = "Responded" /\ inflight' = inflight =>
              LET r == Retrieve(RAG_STATE, markdown_chunks, discourse_chunks,
                                q_vec, "forward")
              IN  /\ r.ok
                  /\ response'.links = Links(r.rows)
      ]_vars

\* A request has responded with links while another one is in the middle
\* of its run.
C13_Witness ==
    /\ pc = "Responded"
    /\ response.links # <<>>
    /\ \E k \in 1..Len(inflight) : inflight[k].pc = "Generating"

====
